---- MODULE Spec2Model ----
(***************************************************************************)
(* Board / session engine of the battleships server.                       *)
(*                                                                         *)
(*   src/src/game/mod.rs  Point, CellState, Ship, ShipCounter, Board,      *)
(*                        BoardBuilder (placement, hit resolution)         *)
(*   src/src/session.rs   Store (DashMap of sessions), cleanup             *)
(*   src/src/store.rs     the same store with random u16 ids               *)
(*                                                                         *)
(* Arc<RwLock<T>> references become indices: a cell is named by its Point, *)
(* a ship by its index in Board.ships, a counter by its index in           *)
(* Board.ship_counters.                                                    *)
(*                                                                         *)
(* Six specifications share the variables:                                 *)
(*   SpecBuild  BoardBuilder::random, one placement attempt per step       *)
(*   Spec       request handlers hitting one session's board, one step per *)
(*              lock acquisition (tokio RwLock) of CellRef::hit/Ship::hit  *)
(*   SpecSeq    the same with one handler: requests in sequence            *)
(*   SpecStore  the session map, the clock and the cleanup task            *)
(*   SpecSweep  the cleanup task beside handlers that hold a session       *)
(*   SpecPoint  a Point written as text and parsed back                    *)
(***************************************************************************)
EXTENDS Integers, Sequences, FiniteSets, TLC

\* ------------------------------------------------------------ bounds
\* Side of the square board, BoardBuilder::square(n).
Size == 3

\* Number of concurrent request handlers.
NumHandlers == 2

\* Session ids 1..NumIds stand for the SessionID space.
NumIds == 2

\* The clock runs from 0 to MaxTime.
MaxTime == 3

\* Store.session_lifetime, in clock ticks.
Lifetime == 1

\* Sessions created in one run.
MaxSessions == 2

\* Shards of the DashMap (the library picks the number from the machine).
NumShards == 2

\* Turns of the loop of get_vacant_id, SessionID::MAX in the code, cut down
\* with the id space.
SessionID_MAX == 2

\* Longest text, in characters, handed to Point::from_str without a Point
\* behind it.
MaxText == 5

\* ------------------------------------------------- program constants
\* u8::MAX, the width of Point.x, Point.y, Ship.length, ShipCounter.remaining.
U8Max == 255

\* The retry budget of add_ship_random (for _ in 0..1000).
TRIES == 1000

\* Option::None, for an Option<Point> (a CellRef) and for an Option<Dyn<Ship>>.
NoPoint == [x |-> -1, y |-> -1]

NoShip == 0

\* Option<SessionRef>::None
NoSession == 0

\* ------------------------------------------------------------- Point
Point(x, y) == [x |-> x, y |-> y]

\* isize -> u8 with try_into: None when the sum leaves 0..=255.
try_add_delta(p, dx, dy) ==
  IF p.x + dx \in 0..U8Max /\ p.y + dy \in 0..U8Max
  THEN Point(p.x + dx, p.y + dy)
  ELSE NoPoint

\* ---------------------------------------------- Point as text: "x-y"
\* A string is the sequence of its characters.
DigitChars == <<"0", "1", "2", "3", "4", "5", "6", "7", "8", "9">>

IsDigit(c) == \E i \in 1..Len(DigitChars) : DigitChars[i] = c

DigitValue(c) == (CHOOSE i \in 1..Len(DigitChars) : DigitChars[i] = c) - 1

\* "{}" of a u8: its decimal digits, no sign, no leading zero.
RECURSIVE u8_to_string(_)
u8_to_string(n) ==
  IF n < 10 THEN <<DigitChars[n + 1]>>
  ELSE Append(u8_to_string(n \div 10), DigitChars[(n % 10) + 1])

\* impl Display for Point: write!(f, "{}-{}", self.x, self.y)
to_string(p) == u8_to_string(p.x) \o <<"-">> \o u8_to_string(p.y)

\* The number a string of digits stands for.
RECURSIVE DecimalValue(_)
DecimalValue(s) ==
  IF Len(s) = 0 THEN 0
  ELSE 10 * DecimalValue(SubSeq(s, 1, Len(s) - 1)) + DigitValue(s[Len(s)])

NoU8 == -1

\* str::parse::<u8>: an optional leading "+", then one digit or more and
\* nothing else, the value within u8; NoU8 for the ParseIntError.
parse_u8(s) ==
  LET digits == IF Len(s) > 1 /\ s[1] = "+" THEN Tail(s) ELSE s IN
  IF Len(digits) = 0 \/ \E i \in 1..Len(digits) : ~IsDigit(digits[i]) THEN NoU8
  ELSE IF DecimalValue(digits) > U8Max THEN NoU8
  ELSE DecimalValue(digits)

\* s.split_once("-"): the text before and after the first "-", or None.
NoSplit == << >>

split_once(s) ==
  IF \A i \in 1..Len(s) : s[i] # "-" THEN NoSplit
  ELSE LET i == CHOOSE k \in 1..Len(s) :
                  s[k] = "-" /\ \A j \in 1..(k - 1) : s[j] # "-"
       IN <<SubSeq(s, 1, i - 1), SubSeq(s, i + 1, Len(s))>>

\* impl FromStr for Point: Ok(Point) or the anyhow error, named by its message.
from_str_Swapped(s) ==
  LET halves == split_once(s) IN
  IF halves = NoSplit THEN [err |-> "expected format 'x-y'", point |-> NoPoint]
  ELSE IF parse_u8(halves[1]) = NoU8
  THEN [err |-> "failed to parse x coordinate", point |-> NoPoint]
  ELSE IF parse_u8(halves[2]) = NoU8
  THEN [err |-> "failed to parse y coordinate", point |-> NoPoint]
  ELSE [err |-> "Ok", point |-> Point(parse_u8(halves[2]), parse_u8(halves[1]))]
from_str(s) ==
  LET halves == split_once(s) IN
  IF halves = NoSplit THEN [err |-> "expected format 'x-y'", point |-> NoPoint]
  ELSE IF parse_u8(halves[1]) = NoU8
  THEN [err |-> "failed to parse x coordinate", point |-> NoPoint]
  ELSE IF parse_u8(halves[2]) = NoU8
  THEN [err |-> "failed to parse y coordinate", point |-> NoPoint]
  ELSE [err |-> "Ok", point |-> Point(parse_u8(halves[1]), parse_u8(halves[2]))]

\* for dx in -1..=1 { for dy in -1..=1 { .. } }, in iteration order.
DeltasExclusiveRange ==
  << <<-1, -1>>, <<-1, 0>>, <<0, -1>>, <<0, 0>> >>

Deltas ==
  << <<-1, -1>>, <<-1, 0>>, <<-1, 1>>,
     << 0, -1>>, << 0, 0>>, << 0, 1>>,
     << 1, -1>>, << 1, 0>>, << 1, 1>> >>

\* ------------------------------------------------------- CellContent
Water == [tag |-> "Water", ship |-> 0]
NearShipOf(s) == [tag |-> "NearShip", ship |-> s]
ShipOf(s) == [tag |-> "Ship", ship |-> s]

contains_ship(content) == content.tag = "Ship"

\* Option<Dyn<Ship>>: the ship index, or None.
get_ship(content) == IF content.tag = "Ship" THEN content.ship ELSE NoShip

get_collision(content) ==
  IF content.tag \in {"Ship", "NearShip"} THEN content.ship ELSE NoShip

\* CellState::default()
DefaultCell == [content |-> Water, exposed |-> FALSE]

\* The check CellRef::hit makes on cell.exposed, and the same left out.
exposed_Unchecked(cell) == FALSE

exposed(cell) == cell.exposed

\* Ship::has_sank, and the same off by one.
has_sank_LastCell(ship) == ship.length <= 1

has_sank(ship) == ship.length = 0

\* ShipCounter::is_defeated read as "some ship of the class sank".
is_defeated_AnySunk(counter) == counter.remaining < counter.total

\* ------------------------------------------------------- ShipCounter
ShipCounter_new_Spent(name, n) == [name |-> name, total |-> n, remaining |-> 0]
ShipCounter_new(name, n) == [name |-> name, total |-> n, remaining |-> n]

is_defeated(counter) == counter.remaining = 0

\* u8 sub_assign(1); a release build wraps.
\* The same with the result dropped instead of assigned.
decrease_Discarded(counter) == counter

decrease(counter) ==
  [counter EXCEPT !.remaining = (counter.remaining - 1) % (U8Max + 1)]

\* ---------------------------------------------------- ShipDefinition
ShipDefinition_new(name, length, count) ==
  [name |-> name, length |-> length, count |-> count]

to_counter_Length(def) == ShipCounter_new(def.name, def.length)
to_counter(def) == ShipCounter_new(def.name, def.count)

\* ------------------------------------------------------------- Board
\* BoardBuilder::new: rows 0..bounds.x, columns 0..bounds.y (exclusive).
BoardBuilder_new_Inclusive(bounds) ==
  [bounds |-> bounds,
   inner |-> [ships |-> << >>,
              ship_counters |-> << >>,
              state |-> [p \in {Point(x, y) : x \in 0..bounds.x, y \in 0..bounds.y}
                           |-> DefaultCell]]]

BoardBuilder_new(bounds) ==
  [bounds |-> bounds,
   inner |-> [ships |-> << >>,
              ship_counters |-> << >>,
              state |-> [p \in {Point(x, y) : x \in 0..(bounds.x - 1),
                                              y \in 0..(bounds.y - 1)}
                           |-> DefaultCell]]]

square(n) == BoardBuilder_new(Point(n, n))

\* Board::get_cell: the CellRef (named by its point) or None.
get_cell(board, point) == IF point \in DOMAIN board.state THEN point ELSE NoPoint

SeqContains(seq, e) == \E i \in 1..Len(seq) : seq[i] = e

SeqRange(seq) == {seq[i] : i \in 1..Len(seq)}

\* ------------------------------------- BoardBuilder::add_ship_instance
\* The inner loops over dx, dy for one target point. k indexes Deltas; tried
\* is the HashSet tried_points (fresh for each target point); near is the
\* Vec near_cells. Returns the error found or the extended near_cells.
RECURSIVE ScanAdjacent(_, _, _, _, _, _)
ScanAdjacent(board, points, point, k, tried, near) ==
  IF k > Len(Deltas) THEN [err |-> "Ok", near |-> near]
  ELSE
    LET adjacent_point == try_add_delta(point, Deltas[k][1], Deltas[k][2]) IN
    IF adjacent_point = NoPoint
       \/ SeqContains(points, adjacent_point)
       \/ adjacent_point \in tried
    THEN ScanAdjacent(board, points, point, k + 1, tried, near)
    ELSE
      LET cell == get_cell(board, adjacent_point) IN
      IF cell = NoPoint
      THEN ScanAdjacent(board, points, point, k + 1,
                        tried \cup {adjacent_point}, near)
      ELSE IF contains_ship(board.state[cell].content)
      THEN [err |-> "Collision", point |-> adjacent_point]
      ELSE ScanAdjacent(board, points, point, k + 1,
                        tried \cup {adjacent_point}, Append(near, cell))

\* The outer loop, for &point in &points, from index i on.
RECURSIVE ScanPoints(_, _, _, _, _)
ScanPoints(board, points, i, ship_cells, near_cells) ==
  IF i > Len(points)
  THEN [err |-> "Ok", ship_cells |-> ship_cells, near_cells |-> near_cells]
  ELSE
    LET point == points[i]
        cell == get_cell(board, point)
    IN
    IF cell = NoPoint THEN [err |-> "OutOfBounds"]
    ELSE IF get_collision(board.state[cell].content) # NoShip
    THEN [err |-> "Collision", point |-> point]
    ELSE
      LET scan == ScanAdjacent(board, points, point, 1, {}, near_cells) IN
      IF scan.err # "Ok" THEN scan
      ELSE ScanPoints(board, points, i + 1, Append(ship_cells, cell), scan.near)

\* cell.write().await.content = ..., for the cells of a Vec in order.
RECURSIVE SetContent(_, _, _, _)
SetContent_First(state, cells, i, content) ==
  IF i > Len(cells) THEN state ELSE [state EXCEPT ![cells[i]].content = content]
SetContent(state, cells, i, content) ==
  IF i > Len(cells) THEN state
  ELSE SetContent([state EXCEPT ![cells[i]].content = content], cells, i + 1, content)

\* Result<(), ShipAddError> and the builder's board afterwards.
add_ship_instance_Partial(board, counter, points) ==
  IF Len(points) = 0
  THEN [err |-> "InternalError", point |-> NoPoint, inner |-> board]
  ELSE
    LET scan == ScanPoints(board, points, 1, << >>, << >>) IN
    IF scan.err # "Ok"
    THEN [err |-> scan.err,
          point |-> IF scan.err = "Collision" THEN scan.point ELSE NoPoint,
          inner |-> IF points[1] \in DOMAIN board.state
                    THEN [board EXCEPT !.state[points[1]].content =
                                         ShipOf(Len(board.ships) + 1)]
                    ELSE board]
    ELSE
      LET ship == [length |-> Len(points) % (U8Max + 1),
                   nearby_cells |-> scan.near_cells,
                   counter |-> counter]
          ships == Append(board.ships, ship)
          s == Len(ships)
          withShip == SetContent(board.state, scan.ship_cells, 1, ShipOf(s))
          withNear == SetContent(withShip, scan.near_cells, 1, NearShipOf(s))
      IN [err |-> "Ok",
          point |-> NoPoint,
          inner |-> [board EXCEPT !.ships = ships, !.state = withNear]]
add_ship_instance(board, counter, points) ==
  IF Len(points) = 0
  THEN [err |-> "InternalError", point |-> NoPoint, inner |-> board]
  ELSE
    LET scan == ScanPoints(board, points, 1, << >>, << >>) IN
    IF scan.err # "Ok"
    THEN [err |-> scan.err,
          point |-> IF scan.err = "Collision" THEN scan.point ELSE NoPoint,
          inner |-> board]
    ELSE
      LET ship == [length |-> Len(points) % (U8Max + 1),
                   nearby_cells |-> scan.near_cells,
                   counter |-> counter]
          ships == Append(board.ships, ship)
          s == Len(ships)
          withShip == SetContent(board.state, scan.ship_cells, 1, ShipOf(s))
          withNear == SetContent(withShip, scan.near_cells, 1, NearShipOf(s))
      IN [err |-> "Ok",
          point |-> NoPoint,
          inner |-> [board EXCEPT !.ships = ships, !.state = withNear]]

\* --------------------------------------- BoardBuilder::add_ship_random
\* saturating_sub on u8.
saturating_sub(a, b) == IF a >= b THEN a - b ELSE 0

\* One iteration's random draws: horizontal, then start_x in 0..=bounds.x and
\* start_y in 0..=bounds.y of the shrunken bounds.
Draws_Swapped(bounds, length) ==
  UNION {{[horizontal |-> h, start_x |-> sx, start_y |-> sy] :
            sx \in 0..saturating_sub(bounds.x, IF h THEN 1 ELSE length),
            sy \in 0..saturating_sub(bounds.y, IF h THEN length ELSE 1)} :
         h \in BOOLEAN}
Draws(bounds, length) ==
  UNION {{[horizontal |-> h, start_x |-> sx, start_y |-> sy] :
            sx \in 0..saturating_sub(bounds.x, IF h THEN length ELSE 1),
            sy \in 0..saturating_sub(bounds.y, IF h THEN 1 ELSE length)} :
         h \in BOOLEAN}

\* (0..length).map(|i| Point { x: start_x + dx, y: start_y + dy })
PointsOf(draw, length) ==
  [i \in 1..length |->
     IF draw.horizontal
     THEN Point((draw.start_x + (i - 1)) % (U8Max + 1), draw.start_y)
     ELSE Point(draw.start_x, (draw.start_y + (i - 1)) % (U8Max + 1))]

\* The boards one call of add_ship_random can leave behind on success.
PlacedBy(board, bounds, length, counter) ==
  {r.inner : r \in {x \in {add_ship_instance(board, counter, PointsOf(d, length)) :
                              d \in Draws(bounds, length)} : x.err = "Ok"}}

\* for _ in 0..ship.count { self.add_ship_random(ship.length, &counter).await? }
RECURSIVE PlaceInstances(_, _, _, _, _)
PlaceInstances(boards, bounds, length, counter, n) ==
  IF n = 0 THEN boards
  ELSE PlaceInstances(UNION {PlacedBy(b, bounds, length, counter) : b \in boards},
                      bounds, length, counter, n - 1)

\* for ship in ships { push the counter; place its instances }, from class i on.
RECURSIVE RandomFrom(_, _, _, _)
RandomFrom(boards, bounds, ships, i) ==
  IF i > Len(ships) THEN boards
  ELSE RandomFrom(
         PlaceInstances(
           {[b EXCEPT !.ship_counters = Append(@, to_counter(ships[i]))] : b \in boards},
           bounds, ships[i].length, i, ships[i].count),
         bounds, ships, i + 1)

\* BoardBuilder::square(n).random(ships): every Board it can return Ok.
random(n, ships) == RandomFrom({square(n).inner}, square(n).bounds, ships, 1)

\* ------------------------------------------------------------- state
VARIABLES
  board,    \* Board {ships, ship_counters, state}: the builder's inner, then the session's
  bounds,   \* BoardBuilder.bounds
  defs,     \* the &[ShipDefinition] given to random
  bpc,      \* where BoardBuilder::random is: "class", "instance", "done", "failed"
  di,       \* index of the class of the outer loop of random
  placed,   \* instances of that class placed so far (the inner loop of random)
  tries,    \* attempts made by the running add_ship_random
  pc,       \* per request handler: where it is in its request
  pt,       \* per handler: the Point of its Board::hit
  idx,      \* per handler: position in the loop it runs (nearby_cells, ship_counters)
  extra,    \* per handler: Ship::hit returned Some(extra cells), i.e. this call sank the ship
  resp,     \* the value a call returned in the step just taken: to whom, from which call
            \* (point: the Point of a ShipAddError::Collision)
  data,     \* Store.data, the DashMap: SessionID -> Session {expires, board}
  now,      \* the clock read by OffsetDateTime::now_utc and UtcDateTime::now
  sref,     \* per handler: the SessionRef / SessionRefMut it holds
  staged,   \* per handler: the Session {expires, board} and id of its running new_session
            \* or remove_session
  created,  \* boards handed to new_session so far; names each session's board
  removed,  \* history: the ids whose remove_session has returned
  cpc,      \* the cleanup task: "sleep" or "retain"
  cnow,     \* cleanup's let now
  cshard,   \* the shard DashMap::retain visits next
  swept,    \* history: the sessions (by board) that a sweep reading a now at or after
            \* their expires has passed over and kept
  ppc,      \* a Point in transport: "start", "text" (the string is there), "parsed"
  shown,    \* the Point that to_string wrote text from, NoPoint when text came typed
  text,     \* the string, a sequence of characters
  parsed    \* what from_str made of text

buildVars == <<bounds, defs, bpc, di, placed, tries>>

handlerVars == <<pc, pt, idx, extra, resp>>

storeVars == <<data, now, staged, created, removed>>

cleanupVars == <<cpc, cnow, cshard, swept>>
pointVars == <<ppc, shown, text, parsed>>

vars == <<board, buildVars, pointVars, handlerVars, sref, storeVars, cleanupVars>>

Handlers == 1..NumHandlers

\* ------------------------------------------------------------- Store
SessionIDs == 1..NumIds

\* DashMap spreads its keys over shards, each behind one RwLock.
ShardOf(id) == id % NumShards

\* A shard guard held by a handler: Ref (read) or RefMut (write) on a key.
NoRef == [id |-> NoSession, mut |-> FALSE]
Ref(id) == [id |-> id, mut |-> FALSE]
RefMut(id) == [id |-> id, mut |-> TRUE]

NoStaged == [expires |-> 0, board |-> 0, id |-> NoSession, tries |-> 0]

\* Store::new with no session, the cleanup task asleep.
StoreEmpty ==
  /\ data = << >>
  /\ now = 0
  /\ staged = [h \in Handlers |-> NoStaged]
  /\ created = 0
  /\ removed = {}
  /\ cpc = "sleep"
  /\ cnow = 0
  /\ cshard = 0
  /\ swept = {}

\* No request in flight.
NoParse == [err |-> "none", point |-> NoPoint]

\* No Point is in transport.
PointIdle ==
  /\ ppc = "start"
  /\ shown = NoPoint
  /\ text = << >>
  /\ parsed = NoParse

\* ------------------------------------------------- utils.rs: WebError
\* WebError { kind, inner, code }: inner is the message, code the
\* Option<StatusCode>.
WebError_internal(inner) == [kind |-> "Internal", inner |-> inner, code |-> "None"]

WebError_client(inner) == [kind |-> "Client", inner |-> inner, code |-> "None"]

WebError_code(err, value) == [err EXCEPT !.code = value]

\* impl From<anyhow::Error> for WebError, what the ? of Board::hit applies.
From_anyhow(value) == WebError_internal(value)

\* AnyhowWebExt::client_error
client_error(value) == WebError_client(value)

\* IntoResponse for WebError: the status of the response.
into_response(err) ==
  IF err.kind = "Client"
  THEN IF err.code = "None" THEN "BAD_REQUEST" ELSE err.code
  ELSE IF err.code = "None" THEN "INTERNAL_SERVER_ERROR" ELSE err.code

\* A response that carries no WebError.
NoWebError == [kind |-> "none", status |-> "none"]

HandlersIdle ==
  /\ PointIdle
  /\ pc = [h \in Handlers |-> "idle"]
  /\ pt = [h \in Handlers |-> NoPoint]
  /\ idx = [h \in Handlers |-> 0]
  /\ extra = [h \in Handlers |-> FALSE]
  /\ resp = [handler |-> 0, call |-> "none", value |-> "none", sank_ship |-> 0,
            point |-> NoPoint, error |-> NoWebError]
  /\ sref = [h \in Handlers |-> NoRef]

\* -------------------------------------------------- fleets explored
\* The class definitions handed to random: two classes, one class with two
\* instances, a class of count 0, no class, a class of length 0 and a class
\* longer than the board.
Fleets ==
  { << ShipDefinition_new("A", 2, 1), ShipDefinition_new("B", 1, 1) >>,
    << ShipDefinition_new("B", 1, 2) >>,
    << ShipDefinition_new("A", 2, 0), ShipDefinition_new("B", 1, 1) >>,
    << >>,
    << ShipDefinition_new("Z", 0, 1) >>,
    << ShipDefinition_new("L", Size + 1, 1) >>,
    << ShipDefinition_new("B", 1, 1), ShipDefinition_new("L", Size + 1, 1) >> }

\* ------------------------------------------------ SpecBuild: random
InitBuild ==
  /\ \E ships \in Fleets : defs = ships
  /\ bounds = square(Size).bounds
  /\ board = square(Size).inner
  /\ bpc = "class"
  /\ di = 1
  /\ placed = 0
  /\ tries = 0
  /\ HandlersIdle
  /\ StoreEmpty

\* let counter = ..to_counter(); self.inner.ship_counters.push(counter.clone())
RandomNextClass ==
  /\ bpc = "class"
  /\ di <= Len(defs)
  /\ board' = [board EXCEPT !.ship_counters = Append(@, to_counter(defs[di]))]
  /\ bpc' = "instance"
  /\ placed' = 0
  /\ tries' = 0
  /\ UNCHANGED <<bounds, defs, di, handlerVars, sref, storeVars, cleanupVars, pointVars>>

\* One iteration of for _ in 0..1000 in add_ship_random: draw, build the
\* points, call add_ship_instance; Ok returns, Err(_) continues.
AddShipRandomAttempt_KeepsTrying ==
  /\ bpc = "instance"
  /\ placed < defs[di].count
  /\ tries < TRIES
  /\ \E draw \in Draws(bounds, defs[di].length) :
       LET r == add_ship_instance(board, Len(board.ship_counters),
                                  PointsOf(draw, defs[di].length))
       IN /\ board' = r.inner
          /\ placed' = placed
          /\ tries' = tries + 1
  /\ UNCHANGED <<bounds, defs, bpc, di, handlerVars, sref, storeVars, cleanupVars, pointVars>>
AddShipRandomAttempt ==
  /\ bpc = "instance"
  /\ placed < defs[di].count
  /\ tries < TRIES
  /\ \E draw \in Draws(bounds, defs[di].length) :
       LET r == add_ship_instance(board, Len(board.ship_counters),
                                  PointsOf(draw, defs[di].length))
       IN /\ board' = r.inner
          /\ IF r.err = "Ok"
             THEN placed' = placed + 1 /\ tries' = 0
             ELSE placed' = placed /\ tries' = tries + 1
  /\ UNCHANGED <<bounds, defs, bpc, di, handlerVars, sref, storeVars, cleanupVars, pointVars>>

\* bail!("Couldn't place a ship after {TRIES} attempts"); random returns it with ?
AddShipRandomExhausted ==
  /\ bpc = "instance"
  /\ placed < defs[di].count
  /\ tries = TRIES
  /\ bpc' = "failed"
  /\ UNCHANGED <<board, bounds, defs, di, placed, tries, handlerVars, sref, storeVars,
                 cleanupVars, pointVars>>

\* The inner loop of random ends: on to the next class.
RandomClassDone ==
  /\ bpc = "instance"
  /\ placed = defs[di].count
  /\ di' = di + 1
  /\ bpc' = "class"
  /\ UNCHANGED <<board, bounds, defs, placed, tries, handlerVars, sref, storeVars,
                 cleanupVars, pointVars>>

\* Ok(self.inner)
RandomFinish ==
  /\ bpc = "class"
  /\ di > Len(defs)
  /\ bpc' = "done"
  /\ UNCHANGED <<board, bounds, defs, di, placed, tries, handlerVars, sref, storeVars,
                 cleanupVars, pointVars>>

NextBuild ==
  \/ RandomNextClass
  \/ AddShipRandomAttempt
  \/ AddShipRandomExhausted
  \/ RandomClassDone
  \/ RandomFinish

SpecBuild == InitBuild /\ [][NextBuild]_vars

\* ------------------------------------------------ Spec: hit resolution
\* The fleets a game is played with: two classes, two ships of one class, a
\* class of count 0 and no class.
PlayFleets ==
  { << ShipDefinition_new("A", 2, 1), ShipDefinition_new("B", 1, 1) >>,
    << ShipDefinition_new("B", 1, 2) >>,
    << ShipDefinition_new("A", 2, 0) >>,
    << >> }

\* The points a client may send: every cell, and one row and column beyond.
HitPoints == {Point(x, y) : x \in 0..Size, y \in 0..Size}

\* The corner and the middle of the first row: every cell but the centre is
\* one of the two after a rotation or a reflection of the square.
FirstCells == {Point(0, 0), Point(1, 0)}

\* The boards random can return for a fleet, one for each way of turning the
\* grid: the ship placed first lies within FirstCells (a ship of length 2 lies
\* along an edge and a ship on the centre leaves no room for a second one at
\* this Size).
PlayBoards(ships) ==
  {b \in random(Size, ships) :
     \A p \in DOMAIN b.state :
       (contains_ship(b.state[p].content) /\ get_ship(b.state[p].content) = 1)
         => p \in FirstCells}

\* A finished build: BoardBuilder::random returned Ok(board).
Init ==
  /\ \E ships \in PlayFleets :
       /\ defs = ships
       /\ board \in PlayBoards(ships)
       /\ placed = IF Len(ships) = 0 THEN 0 ELSE ships[Len(ships)].count
  /\ bounds = square(Size).bounds
  /\ bpc = "done"
  /\ di = Len(defs) + 1
  /\ tries = 0
  /\ HandlersIdle
  /\ data = (1 :> [expires |-> Lifetime, board |-> 1])
  /\ now = 0
  /\ staged = [h \in Handlers |-> NoStaged]
  /\ created = 1
  /\ removed = {}
  /\ cpc = "sleep"
  /\ cnow = 0
  /\ cshard = 0
  /\ swept = {}

\* The ship of the cell a handler is hitting.
ShipAt(point) == get_ship(board.state[point].content)

\* tokio RwLock write guards held across an await. CellRef::hit holds its
\* cell's guard until it returns; ship.write().await is held for Ship::hit,
\* register_sink included.
HoldsCell_Never(h, point) == FALSE
HoldsCell(h, point) ==
  /\ pc[h] \in {"ship_write", "counter_write", "expose_nearby"}
  /\ pt[h] = point

HoldsShip(h, s) ==
  /\ pc[h] \in {"counter_write", "expose_nearby"}
  /\ ShipAt(pt[h]) = s

\* CellState::expose
expose_Toggle(cell) == [cell EXCEPT !.exposed = ~@]
expose(cell) == [cell EXCEPT !.exposed = TRUE]

\* No call returned in this step.
NoResp ==
  [handler |-> 0, call |-> "none", value |-> "none", sank_ship |-> NoShip,
   point |-> NoPoint, error |-> NoWebError]

\* What a call returned to handler h. Board::hit: Err "OutOfBounds" or
\* "AlreadyHit", or "Ok" with HitDisplayDiff.sank_ship; Board::is_win: "true"
\* or "false".
HitErr(h, err) ==
  [handler |-> h, call |-> "hit", value |-> err.inner, sank_ship |-> NoShip,
   point |-> NoPoint,
   error |-> [kind |-> err.kind, status |-> into_response(err)]]
single_cell_Sank(h) ==
  [handler |-> h, call |-> "hit", value |-> "Ok", sank_ship |-> 1,
   point |-> NoPoint, error |-> NoWebError]
single_cell(h) ==
  [handler |-> h, call |-> "hit", value |-> "Ok", sank_ship |-> NoShip,
   point |-> NoPoint, error |-> NoWebError]
sank_ship(h, s) ==
  [handler |-> h, call |-> "hit", value |-> "Ok", sank_ship |-> s,
   point |-> NoPoint, error |-> NoWebError]
IsWinRet(h, w) ==
  [handler |-> h, call |-> "is_win", value |-> w, sank_ship |-> NoShip,
   point |-> NoPoint, error |-> NoWebError]

\* DashMap::get(&id): Some(Ref) exactly when the map has an entry under id;
\* the Session's expires is not looked at.
data_get_Unexpired(id) == id \in DOMAIN data /\ data[id].expires >= now
data_get(id) == id \in DOMAIN data

\* Store::get_session(id): self.data.get(&id) under the shard's read lock; the
\* Ref is handed to the caller, None is returned as such.
get_session(h, id) ==
  /\ pc[h] = "idle"
  /\ \A g \in Handlers : ~(sref[g].mut /\ ShardOf(sref[g].id) = ShardOf(id))
  /\ IF data_get(id)
     THEN /\ sref' = [sref EXCEPT ![h] = Ref(id)]
          /\ pc' = [pc EXCEPT ![h] = "session"]
          /\ resp' = NoResp
     ELSE /\ resp' = [handler |-> h, call |-> "get_session", value |-> "None",
                      sank_ship |-> NoShip, point |-> NoPoint, error |-> NoWebError]
          /\ UNCHANGED <<pc, sref>>
  /\ UNCHANGED <<board, buildVars, pointVars, pt, idx, extra, storeVars, cleanupVars>>

\* A request arrives; the handler looks its session up.
\* SessionManager::current, Store::get: self.data.get(id) takes the shard's
\* read lock and returns the Ref that holds it.
Current(h) == \E id \in SessionIDs : data_get(id) /\ get_session(h, id)

\* Board::hit up to the first suspension of CellRef::hit: get_cell, then
\* under cell.write(): the exposed check, expose, get_ship.
Board_hit(h, point) ==
  /\ pc[h] = "session"
  /\ LET cell == get_cell(board, point) IN
     IF cell = NoPoint
     THEN \* ok_or(anyhow!("Invalid cell coordinates"))?
          /\ resp' = HitErr(h, WebError_code(client_error("OutOfBounds"), "NOT_FOUND"))
          /\ pc' = [pc EXCEPT ![h] = "idle"]
          /\ sref' = [sref EXCEPT ![h] = NoRef]
          /\ UNCHANGED <<board, pt>>
     ELSE /\ \A g \in Handlers : ~HoldsCell(g, cell)
          /\ IF exposed(board.state[cell])
             THEN \* bail!("Cell already hit")
                  /\ resp' = HitErr(h, From_anyhow("AlreadyHit"))
                  /\ pc' = [pc EXCEPT ![h] = "idle"]
                  /\ sref' = [sref EXCEPT ![h] = NoRef]
                  /\ UNCHANGED <<board, pt>>
             ELSE /\ board' = [board EXCEPT !.state[cell] = expose(@)]
                  /\ IF get_ship(board.state[cell].content) = NoShip
                     THEN \* Ok(None) => HitDisplayDiff::single_cell
                          /\ resp' = single_cell(h)
                          /\ pc' = [pc EXCEPT ![h] = "idle"]
                          /\ sref' = [sref EXCEPT ![h] = NoRef]
                          /\ pt' = pt
                     ELSE \* ship.write().await
                          /\ pc' = [pc EXCEPT ![h] = "ship_write"]
                          /\ pt' = [pt EXCEPT ![h] = point]
                          /\ resp' = NoResp
                          /\ sref' = sref
  /\ UNCHANGED <<buildVars, pointVars, idx, extra, storeVars, cleanupVars>>

\* Ship::hit under ship.write(): checked_sub, then has_sank.
Ship_hit_Skips(h) ==
  /\ pc[h] = "ship_write"
  /\ \A g \in Handlers : ~HoldsShip(g, ShipAt(pt[h]))
  /\ pc' = [pc EXCEPT ![h] = "has_sank_read"]
  /\ resp' = NoResp
  /\ UNCHANGED <<board, buildVars, pointVars, pt, idx, extra, sref, storeVars,
                 cleanupVars>>
Ship_hit(h) ==
  /\ pc[h] = "ship_write"
  /\ LET s == ShipAt(pt[h]) IN
     /\ \A g \in Handlers : ~HoldsShip(g, s)
     /\ IF board.ships[s].length = 0
        THEN \* None => return None: ship already sank
             /\ pc' = [pc EXCEPT ![h] = "has_sank_read"]
             /\ UNCHANGED board
        ELSE /\ board' = [board EXCEPT !.ships[s].length = @ - 1]
             /\ IF has_sank([board.ships[s] EXCEPT !.length = @ - 1])
                THEN pc' = [pc EXCEPT ![h] = "counter_write"]
                ELSE pc' = [pc EXCEPT ![h] = "has_sank_read"]
  /\ resp' = NoResp
  /\ UNCHANGED <<buildVars, pointVars, pt, idx, extra, sref, storeVars, cleanupVars>>

\* register_sink: self.counter.write().await.decrease()
register_sink_decrease_All(h) ==
  /\ pc[h] = "counter_write"
  /\ board' = [board EXCEPT !.ship_counters =
                 [c \in DOMAIN board.ship_counters |-> decrease(board.ship_counters[c])]]
  /\ pc' = [pc EXCEPT ![h] = "expose_nearby"]
  /\ idx' = [idx EXCEPT ![h] = 1]
  /\ resp' = NoResp
  /\ UNCHANGED <<buildVars, pointVars, pt, extra, sref, storeVars, cleanupVars>>
register_sink_decrease(h) ==
  /\ pc[h] = "counter_write"
  /\ LET s == ShipAt(pt[h])
         c == board.ships[s].counter
     IN board' = [board EXCEPT !.ship_counters[c] = decrease(@)]
  /\ pc' = [pc EXCEPT ![h] = "expose_nearby"]
  /\ idx' = [idx EXCEPT ![h] = 1]
  /\ resp' = NoResp
  /\ UNCHANGED <<buildVars, pointVars, pt, extra, sref, storeVars, cleanupVars>>

\* register_sink: one turn of for cell in &self.nearby_cells
\* { cell.write().await.expose() }
register_sink_expose_Marks(h) ==
  /\ pc[h] = "expose_nearby"
  /\ LET s == ShipAt(pt[h]) IN
     /\ idx[h] <= Len(board.ships[s].nearby_cells)
     /\ \A g \in Handlers : ~HoldsCell(g, board.ships[s].nearby_cells[idx[h]])
     /\ board' = [board EXCEPT !.state[board.ships[s].nearby_cells[idx[h]]] =
                          [content |-> Water, exposed |-> TRUE]]
  /\ idx' = [idx EXCEPT ![h] = @ + 1]
  /\ resp' = NoResp
  /\ UNCHANGED <<buildVars, pointVars, pc, pt, extra, sref, storeVars, cleanupVars>>
register_sink_expose(h) ==
  /\ pc[h] = "expose_nearby"
  /\ LET s == ShipAt(pt[h]) IN
     /\ idx[h] <= Len(board.ships[s].nearby_cells)
     /\ \A g \in Handlers : ~HoldsCell(g, board.ships[s].nearby_cells[idx[h]])
     /\ board' = [board EXCEPT !.state[board.ships[s].nearby_cells[idx[h]]] = expose(@)]
  /\ idx' = [idx EXCEPT ![h] = @ + 1]
  /\ resp' = NoResp
  /\ UNCHANGED <<buildVars, pointVars, pc, pt, extra, sref, storeVars, cleanupVars>>

\* The loop of register_sink is over: Ship::hit returns Some(nearby_cells),
\* both guards drop, CellRef::hit returns Ok(Some(ship)).
register_sink_return(h) ==
  /\ pc[h] = "expose_nearby"
  /\ idx[h] > Len(board.ships[ShipAt(pt[h])].nearby_cells)
  /\ pc' = [pc EXCEPT ![h] = "has_sank_read"]
  /\ extra' = [extra EXCEPT ![h] = TRUE]
  /\ idx' = [idx EXCEPT ![h] = 0]
  /\ resp' = NoResp
  /\ UNCHANGED <<board, buildVars, pointVars, pt, sref, storeVars, cleanupVars>>

\* Board::hit: if ship.read().await.has_sank() { Some(ship) } else { None },
\* then the diff is returned.
Board_hit_has_sank(h) ==
  /\ pc[h] = "has_sank_read"
  /\ LET s == ShipAt(pt[h]) IN
     /\ \A g \in Handlers : ~HoldsShip(g, s)
     /\ resp' = IF has_sank(board.ships[s]) THEN sank_ship(h, s) ELSE single_cell(h)
  /\ pc' = [pc EXCEPT ![h] = "idle"]
  /\ pt' = [pt EXCEPT ![h] = NoPoint]
  /\ extra' = [extra EXCEPT ![h] = FALSE]
  /\ sref' = [sref EXCEPT ![h] = NoRef]
  /\ UNCHANGED <<board, buildVars, pointVars, idx, storeVars, cleanupVars>>

\* The counter Board::is_win reads next: the first when the call starts.
IsWinAt(h) == IF pc[h] = "session" THEN 1 ELSE idx[h]

\* Board::is_win: one turn of for counter in &self.ship_counters
\* { counter.read().await.is_defeated() }, breaking at the first miss.
is_win_read(h) ==
  /\ pc[h] \in {"session", "is_win"}
  /\ IsWinAt(h) <= Len(board.ship_counters)
  /\ IF is_defeated(board.ship_counters[IsWinAt(h)])
     THEN /\ idx' = [idx EXCEPT ![h] = IsWinAt(h) + 1]
          /\ pc' = [pc EXCEPT ![h] = "is_win"]
          /\ resp' = NoResp
          /\ sref' = sref
     ELSE /\ resp' = IsWinRet(h, "false")
          /\ pc' = [pc EXCEPT ![h] = "idle"]
          /\ idx' = [idx EXCEPT ![h] = 0]
          /\ sref' = [sref EXCEPT ![h] = NoRef]
  /\ UNCHANGED <<board, buildVars, pointVars, pt, extra, storeVars, cleanupVars>>

\* The loop of is_win ran through: win is still true.
is_win_return(h) ==
  /\ pc[h] \in {"session", "is_win"}
  /\ IsWinAt(h) > Len(board.ship_counters)
  /\ resp' = IsWinRet(h, "true")
  /\ pc' = [pc EXCEPT ![h] = "idle"]
  /\ idx' = [idx EXCEPT ![h] = 0]
  /\ sref' = [sref EXCEPT ![h] = NoRef]
  /\ UNCHANGED <<board, buildVars, pointVars, pt, extra, storeVars, cleanupVars>>

\* One step of the request handler h.
HandlerStep(h) ==
  \/ Current(h)
  \/ \E point \in HitPoints : Board_hit(h, point)
  \/ Ship_hit(h)
  \/ register_sink_decrease(h)
  \/ register_sink_expose(h)
  \/ register_sink_return(h)
  \/ Board_hit_has_sank(h)
  \/ is_win_read(h)
  \/ is_win_return(h)

\* Requests of several clients of one session, interleaved.
Next == \E h \in Handlers : HandlerStep(h)

Spec == Init /\ [][Next]_vars

\* One client: each request runs to its end before the next starts.
NextSeq == HandlerStep(1)

SpecSeq == Init /\ [][NextSeq]_vars

\* ------------------------------------------------ SpecStore: sessions
\* What a Store call returned to handler h.
StoreRet(h, call, v) ==
  [handler |-> h, call |-> call, value |-> v, sank_ship |-> NoShip,
   point |-> NoPoint, error |-> NoWebError]

\* A shard's RwLock: a writer needs no guard of another task on it, a reader
\* no write guard.
ShardFreeForWrite(h, sh) ==
  \A g \in Handlers \ {h} : sref[g] = NoRef \/ ShardOf(sref[g].id) # sh

ShardFreeForRead(h, sh) ==
  \A g \in Handlers \ {h} : ~(sref[g].mut /\ ShardOf(sref[g].id) = sh)

\* The entries a sweep with clock reading t keeps: retain(|_, entry|
\* entry.expires >= now).
retain_keeps_Early(entry, t) == entry.expires > t + Lifetime
retain_keeps(entry, t) == entry.expires >= t

\* The store with no session yet and an empty board behind the handlers.
InitStore ==
  /\ board = square(Size).inner
  /\ bounds = square(Size).bounds
  /\ defs = << >>
  /\ bpc = "done"
  /\ di = 1
  /\ placed = 0
  /\ tries = 0
  /\ HandlersIdle
  /\ StoreEmpty

\* The clock advances.
Tick ==
  /\ now < MaxTime
  /\ now' = now + 1
  /\ resp' = NoResp
  /\ UNCHANGED <<board, buildVars, pointVars, pc, pt, idx, extra, sref, data, staged,
                 created,
                 removed, cleanupVars>>

\* new_session: let expires = now + self.session_lifetime.
expires_Now(t) == t
expires(t) == t + Lifetime

\* new_session: let now = now_utc(); let expires = now + session_lifetime
new_session(h) ==
  /\ pc[h] = "idle"
  /\ created < MaxSessions
  /\ created' = created + 1
  /\ \E id \in SessionIDs :
       staged' = [staged EXCEPT ![h] = [expires |-> expires(now),
                                        board |-> created + 1,
                                        id |-> id,
                                        tries |-> 0]]
  /\ pc' = [pc EXCEPT ![h] = "get_vacant_id"]
  /\ resp' = NoResp
  /\ UNCHANGED <<board, buildVars, pointVars, pt, idx, extra, sref, data, now, removed,
                 cleanupVars>>

\* get_vacant_id: for _ in 0..SessionID::MAX { if self.data.contains_key(&id)
\* { id = rng.random() } else { return Some(id) } } None, one turn per step.
\* contains_key takes the shard's read lock; None makes insert_new fail with
\* "Cannot create new session, memory full!".
get_vacant_id_Evicts(h) ==
  /\ pc[h] = "get_vacant_id"
  /\ ShardFreeForRead(h, ShardOf(staged[h].id))
  /\ IF staged[h].id \notin DOMAIN data
     THEN /\ pc' = [pc EXCEPT ![h] = "entry"]
          /\ staged' = staged
          /\ resp' = NoResp
          /\ data' = data
     ELSE /\ data' = [id \in DOMAIN data \ {staged[h].id} |-> data[id]]
          /\ staged' = [staged EXCEPT ![h] = NoStaged]
          /\ pc' = [pc EXCEPT ![h] = "idle"]
          /\ resp' = StoreRet(h, "new_session", "MemoryFull")
  /\ UNCHANGED <<board, buildVars, pointVars, pt, idx, extra, sref, now, created,
                 removed, cleanupVars>>
get_vacant_id(h) ==
  /\ pc[h] = "get_vacant_id"
  /\ ShardFreeForRead(h, ShardOf(staged[h].id))
  /\ IF staged[h].id \notin DOMAIN data
     THEN /\ pc' = [pc EXCEPT ![h] = "entry"]
          /\ staged' = staged
          /\ resp' = NoResp
     ELSE IF staged[h].tries + 1 < SessionID_MAX
     THEN /\ \E id \in SessionIDs :
               staged' = [staged EXCEPT ![h].id = id, ![h].tries = @ + 1]
          /\ pc' = pc
          /\ resp' = NoResp
     ELSE /\ staged' = [staged EXCEPT ![h] = NoStaged]
          /\ pc' = [pc EXCEPT ![h] = "idle"]
          /\ resp' = StoreRet(h, "new_session", "MemoryFull")
  /\ UNCHANGED <<board, buildVars, pointVars, pt, idx, extra, sref, data, now, created,
                 removed, cleanupVars>>

\* insert_new: match self.data.entry(id): Occupied => bail, Vacant =>
\* entry.insert(session), which returns the RefMut.
insert_new_Overwrite(h) ==
  /\ pc[h] = "entry"
  /\ ShardFreeForWrite(h, ShardOf(staged[h].id))
  /\ data' = [id \in DOMAIN data \cup {staged[h].id} |->
               IF id = staged[h].id
               THEN [expires |-> staged[h].expires, board |-> staged[h].board]
               ELSE data[id]]
  /\ sref' = [sref EXCEPT ![h] = RefMut(staged[h].id)]
  /\ pc' = [pc EXCEPT ![h] = "created"]
  /\ resp' = NoResp
  /\ staged' = [staged EXCEPT ![h] = NoStaged]
  /\ UNCHANGED <<board, buildVars, pointVars, pt, idx, extra, now, created, removed,
                 cleanupVars>>
insert_new(h) ==
  /\ pc[h] = "entry"
  /\ ShardFreeForWrite(h, ShardOf(staged[h].id))
  /\ IF staged[h].id \in DOMAIN data
     THEN /\ resp' = StoreRet(h, "new_session", "Occupied")
          /\ pc' = [pc EXCEPT ![h] = "idle"]
          /\ UNCHANGED <<data, sref>>
     ELSE /\ data' = (staged[h].id :> [expires |-> staged[h].expires,
                                        board |-> staged[h].board]) @@ data
          /\ sref' = [sref EXCEPT ![h] = RefMut(staged[h].id)]
          /\ pc' = [pc EXCEPT ![h] = "created"]
          /\ resp' = NoResp
  /\ staged' = [staged EXCEPT ![h] = NoStaged]
  /\ UNCHANGED <<board, buildVars, pointVars, pt, idx, extra, now, created, removed,
                 cleanupVars>>

\* The handler that created the session is done with it: the RefMut drops.
new_session_return(h) ==
  /\ pc[h] = "created"
  /\ resp' = StoreRet(h, "new_session", "Ok")
  /\ sref' = [sref EXCEPT ![h] = NoRef]
  /\ pc' = [pc EXCEPT ![h] = "idle"]
  /\ UNCHANGED <<board, buildVars, pointVars, pt, idx, extra, storeVars, cleanupVars>>

\* get_session with a cookie naming no entry: self.data.get(&id)? is None.
get_session_None(h) == \E id \in SessionIDs : ~data_get(id) /\ get_session(h, id)

\* The handler is done with the session it looked up: the Ref drops.
session_drop(h) ==
  /\ pc[h] = "session"
  /\ sref' = [sref EXCEPT ![h] = NoRef]
  /\ pc' = [pc EXCEPT ![h] = "idle"]
  /\ resp' = NoResp
  /\ UNCHANGED <<board, buildVars, pointVars, pt, idx, extra, storeVars, cleanupVars>>

\* remove_session: let id = session.key().clone(); drop(session); only the id
\* is kept, the board noted with it names the session the handler held.
remove_session_KeepsRef(h) ==
  /\ pc[h] = "session"
  /\ staged' = [staged EXCEPT ![h] = [expires |-> 0,
                                      board |-> data[sref[h].id].board,
                                      id |-> sref[h].id,
                                      tries |-> 0]]
  /\ pc' = [pc EXCEPT ![h] = "remove"]
  /\ resp' = NoResp
  /\ UNCHANGED <<board, buildVars, pointVars, pt, idx, extra, sref, data, now, created,
                 removed,
                 cleanupVars>>
remove_session(h) ==
  /\ pc[h] = "session"
  /\ staged' = [staged EXCEPT ![h] = [expires |-> 0,
                                      board |-> data[sref[h].id].board,
                                      id |-> sref[h].id,
                                      tries |-> 0]]
  /\ sref' = [sref EXCEPT ![h] = NoRef]
  /\ pc' = [pc EXCEPT ![h] = "remove"]
  /\ resp' = NoResp
  /\ UNCHANGED <<board, buildVars, pointVars, pt, idx, extra, data, now, created, removed,
                 cleanupVars>>

\* remove_session: self.data.remove(&id)
remove_session_remove(h) ==
  /\ pc[h] = "remove"
  /\ ShardFreeForWrite(0, ShardOf(staged[h].id))
  /\ data' = [id \in DOMAIN data \ {staged[h].id} |-> data[id]]
  /\ staged' = [staged EXCEPT ![h] = NoStaged]
  /\ pc' = [pc EXCEPT ![h] = "idle"]
  /\ removed' = removed \cup {staged[h].id}
  /\ resp' = StoreRet(h, "remove_session", "Ok")
  /\ UNCHANGED <<board, buildVars, pointVars, pt, idx, extra, sref, now, created,
                 cleanupVars>>

\* The interval of schedule_task ticks: cleanup reads let now = UtcDateTime::now()
cleanup ==
  /\ cpc = "sleep"
  /\ cnow' = now
  /\ cshard' = 0
  /\ cpc' = "retain"
  /\ resp' = NoResp
  /\ UNCHANGED <<board, buildVars, pointVars, pc, pt, idx, extra, sref, storeVars, swept>>

\* DashMap::retain on one shard, under that shard's write lock; after the last
\* shard cleanup returns and the task sleeps again.
cleanup_retain ==
  /\ cpc = "retain"
  /\ ShardFreeForWrite(0, cshard)
  /\ data' = [id \in {i \in DOMAIN data :
                        ShardOf(i) # cshard \/ retain_keeps(data[i], cnow)} |-> data[id]]
  /\ IF cshard + 1 < NumShards
     THEN /\ cshard' = cshard + 1
          /\ cpc' = cpc
     ELSE /\ cshard' = 0
          /\ cpc' = "sleep"
  /\ swept' = swept \cup {data[i].board : i \in {j \in DOMAIN data' :
                                 ShardOf(j) = cshard /\ data[j].expires <= cnow}}
  /\ cnow' = cnow
  /\ resp' = NoResp
  /\ UNCHANGED <<board, buildVars, pointVars, pc, pt, idx, extra, sref, now, staged,
                 created,
                 removed>>

NextStore ==
  \/ Tick
  \/ cleanup
  \/ cleanup_retain
  \/ \E h \in Handlers :
       \/ new_session(h)
       \/ get_vacant_id(h)
       \/ insert_new(h)
       \/ new_session_return(h)
       \/ Current(h)
       \/ get_session_None(h)
       \/ session_drop(h)
       \/ remove_session(h)
       \/ remove_session_remove(h)

SpecStore == InitStore /\ [][NextStore]_vars

-----------------------------------------------------------------------------
\* The cleanup task sweeping the store while handlers hold the session and are
\* in the middle of Board::hit, Board::is_win or remove_session.

SweepFleet == << ShipDefinition_new("A", 2, 1), ShipDefinition_new("B", 1, 1) >>

\* One board of that fleet, in a session whose expires has passed and that no
\* sweep has visited yet: the next sweep is to evict it.
InitSweep ==
  /\ defs = SweepFleet
  /\ board = CHOOSE b \in random(Size, SweepFleet) : TRUE
  /\ placed = SweepFleet[Len(SweepFleet)].count
  /\ bounds = square(Size).bounds
  /\ bpc = "done"
  /\ di = Len(defs) + 1
  /\ tries = 0
  /\ HandlersIdle
  /\ data = (1 :> [expires |-> Lifetime, board |-> 1])
  /\ now = MaxTime
  /\ staged = [h \in Handlers |-> NoStaged]
  /\ created = 1
  /\ removed = {}
  /\ cpc = "sleep"
  /\ cnow = 0
  /\ cshard = 0
  /\ swept = {}

\* The points hit while the sweep runs: the cells of the two ships, one cell
\* without a ship and one point outside the grid.
SweepPoints ==
  {p \in HitPoints : p \in DOMAIN board.state /\ contains_ship(board.state[p].content)}
    \cup {CHOOSE p \in DOMAIN board.state : ~contains_ship(board.state[p].content),
           Point(Size, Size)}

\* All a handler does with the session it looked up.
SweepHandler(h) ==
  \/ Current(h)
  \/ \E point \in SweepPoints : Board_hit(h, point)
  \/ Ship_hit(h)
  \/ register_sink_decrease(h)
  \/ register_sink_expose(h)
  \/ register_sink_return(h)
  \/ Board_hit_has_sank(h)
  \/ is_win_read(h)
  \/ is_win_return(h)
  \/ session_drop(h)
  \/ remove_session(h)
  \/ remove_session_remove(h)

NextSweep ==
  \/ cleanup
  \/ cleanup_retain
  \/ \E h \in Handlers : SweepHandler(h)

-----------------------------------------------------------------------------
\* A Point travels as text: written by Display, or typed by whoever sends the
\* request, and read back by FromStr.

\* The characters of typed text, and how long it gets.
Chars == {"0", "1", "3", "6", "+", "-", "a"}

RECURSIVE TextsOfLen(_)
TextsOfLen(n) ==
  IF n = 0 THEN {<< >>}
  ELSE {Append(t, c) : t \in TextsOfLen(n - 1), c \in Chars}

Texts == UNION {TextsOfLen(n) : n \in 0..MaxText}

InitPoint == InitStore

\* point.to_string(), for any Point of u8 coordinates.
PointToString ==
  /\ ppc = "start"
  /\ \E x \in 0..U8Max, y \in 0..U8Max :
       /\ shown' = Point(x, y)
       /\ text' = to_string(Point(x, y))
  /\ ppc' = "text"
  /\ parsed' = parsed
  /\ UNCHANGED <<board, buildVars, handlerVars, sref, storeVars, cleanupVars>>

\* A string arrives that no Point was written to.
TextArrives ==
  /\ ppc = "start"
  /\ \E t \in Texts : text' = t
  /\ shown' = NoPoint
  /\ ppc' = "text"
  /\ parsed' = parsed
  /\ UNCHANGED <<board, buildVars, handlerVars, sref, storeVars, cleanupVars>>

\* text.parse::<Point>()
PointFromStr ==
  /\ ppc = "text"
  /\ parsed' = from_str(text)
  /\ ppc' = "parsed"
  /\ UNCHANGED <<shown, text>>
  /\ UNCHANGED <<board, buildVars, handlerVars, sref, storeVars, cleanupVars>>

NextPoint ==
  \/ PointToString
  \/ TextArrives
  \/ PointFromStr

SpecPoint == InitPoint /\ [][NextPoint]_vars

\* tokio's RwLock queues its waiters first come first served, so a handler
\* whose lock keeps becoming free gets it; the task loop of schedule_task
\* keeps running the sweep it has started.
SpecSweep ==
  /\ InitSweep /\ [][NextSweep]_vars
  /\ \A h \in Handlers : SF_vars(SweepHandler(h))
  /\ SF_vars(cleanup_retain)


\* =========================================================== properties
ShipIds == 1..Len(board.ships)

\* The cells whose content is Ship(s).
ShipCells(s) == {p \in DOMAIN board.state : board.state[p].content = ShipOf(s)}

Abs(n) == IF n < 0 THEN -n ELSE n

\* q is p or one of its 8 neighbours.
Adjacent(p, q) == Abs(p.x - q.x) <= 1 /\ Abs(p.y - q.y) <= 1

\* C1: in every Board that random returns Ok, each ship still occupies as
\* many cells as its length (no ship took a cell of another), and no cell of
\* one ship is the cell of, or one of the 8 neighbours of, a cell of another.
C1_PlacementNonOverlap ==
  bpc = "done" =>
    /\ \A s \in ShipIds : Cardinality(ShipCells(s)) = board.ships[s].length
    /\ \A s \in ShipIds : \A t \in ShipIds \ {s} :
         \A p \in ShipCells(s) : \A q \in ShipCells(t) : ~Adjacent(p, q)

\* random returned a board with two ships on it.
C1_Witness == bpc = "done" /\ Len(board.ships) = 2

\* Handlers between the exposure of a cell of ship s and Ship::hit on s.
PendingHits(s) == {h \in Handlers : pc[h] = "ship_write" /\ ShipAt(pt[h]) = s}

Unexposed(s) == {p \in ShipCells(s) : ~board.state[p].exposed}

NearbyExposed(s) ==
  \A i \in 1..Len(board.ships[s].nearby_cells) :
    board.state[board.ships[s].nearby_cells[i]].exposed

\* Each successful hit on a cell of s has taken one off its length, and the
\* length is 0 only when every cell of s was hit.
C2_LengthCountsHits ==
  \A s \in ShipIds :
    /\ board.ships[s].length = Cardinality(Unexposed(s)) + Cardinality(PendingHits(s))
    /\ board.ships[s].length = 0 => Unexposed(s) = {}

\* When the hit that took the length to 0 returns from Ship::hit, every
\* cell of nearby_cells is exposed.
C2_CascadeDone ==
  \A h \in Handlers :
    (pc[h] = "has_sank_read" /\ extra[h]) =>
      /\ board.ships[ShipAt(pt[h])].length = 0
      /\ NearbyExposed(ShipAt(pt[h]))

\* The step of that hit on the class counter takes exactly 1 off it and
\* leaves the other counters alone; no other step of a hit changes a counter.
C2_CounterStep ==
  \A h \in Handlers :
    IF pc[h] = "counter_write" /\ pc'[h] = "expose_nearby"
    THEN LET c == board.ships[ShipAt(pt[h])].counter IN
         /\ board'.ship_counters[c].remaining = board.ship_counters[c].remaining - 1
         /\ \A d \in DOMAIN board.ship_counters \ {c} :
              board'.ship_counters[d] = board.ship_counters[d]
    ELSE pc'[h] # pc[h] => board'.ship_counters = board.ship_counters

\* C2: a ship of length L loses one unit of length per successful hit on its
\* cells and reaches 0 exactly at the L-th; that hit takes exactly 1 off the
\* class counter and has every nearby cell exposed when it returns.
C2_SinkPropagation ==
  /\ [](C2_LengthCountsHits /\ C2_CascadeDone)
  /\ [][C2_CounterStep]_vars

\* A hit sank the two-cell ship and is about to return.
C2_Witness ==
  \E h \in Handlers :
    /\ pc[h] = "has_sank_read"
    /\ extra[h]
    /\ Cardinality(ShipCells(ShipAt(pt[h]))) = 2

\* The ships of the class of counter c whose sinking has reached the counter.
SunkOf(c) ==
  {s \in ShipIds :
     /\ board.ships[s].counter = c
     /\ board.ships[s].length = 0
     /\ \A h \in Handlers : ~(pc[h] = "counter_write" /\ ShipAt(pt[h]) = s)}

C3_Bounds ==
  \A c \in DOMAIN board.ship_counters :
    /\ 0 <= board.ship_counters[c].remaining
    /\ board.ship_counters[c].remaining <= board.ship_counters[c].total
    /\ board.ship_counters[c].remaining =
         board.ship_counters[c].total - Cardinality(SunkOf(c))

C3_NeverIncreases ==
  \A c \in DOMAIN board.ship_counters :
    board'.ship_counters[c].remaining <= board.ship_counters[c].remaining

\* C3: under every interleaving of hits each counter stays within
\* 0..total, never increases, and is total minus the number of sunk ships of
\* its class: one decrement per sunk ship, never two, never below 0.
C3_CounterBounds == []C3_Bounds /\ [][C3_NeverIncreases]_vars

\* Both ships of a class of two are sunk and counted.
C3_Witness ==
  \E c \in DOMAIN board.ship_counters :
    /\ board.ship_counters[c].total = 2
    /\ board.ship_counters[c].remaining = 0

\* A ship whose length is 0 while its counter is not yet decreased or one of
\* its nearby cells is not yet exposed.
PartialSink(s) ==
  /\ board.ships[s].length = 0
  /\ \/ \E h \in Handlers : pc[h] = "counter_write" /\ ShipAt(pt[h]) = s
     \/ ~NearbyExposed(s)

\* Handler g reads the board in this step: it starts a hit or reads a counter
\* for is_win.
ReadStep(g) ==
  /\ pc[g] \in {"session", "is_win"}
  /\ IsWinAt(g) <= Len(board.ship_counters)
  /\ <<pc[g], idx[g]>>' # <<pc[g], idx[g]>>

\* C4: no hit or read of the board by one handler happens while the hit of
\* another is partially applied (length 0, counter or nearby cells pending).
C4_HitAtomic ==
  [][\A g \in Handlers : ReadStep(g) => \A s \in ShipIds : ~PartialSink(s)]_vars

\* Handler h is between the start and the end of Board::hit.
InHit(h) == pc[h] \in {"ship_write", "counter_write", "expose_nearby", "has_sank_read"}

\* C5: two handlers holding the same session are never both inside
\* Board::hit on its board.
C5_OneMutator ==
  \A g \in Handlers : \A h \in Handlers \ {g} :
    ~(InHit(g) /\ InHit(h) /\ sref[g].id = sref[h].id)

InGrid(point) == point.x < Size /\ point.y < Size

\* C6: a hit on an exposed cell, whatever exposed it, returns AlreadyHit and
\* leaves the board as it was; a hit on an unexposed cell exposes it and is
\* not refused; an exposed cell stays exposed, so the second of two hits on
\* one coordinate is the refused one.
C6_HitIdempotence ==
  [][/\ \A h \in Handlers : \A point \in HitPoints :
          (Board_hit(h, point) /\ InGrid(point)) =>
            IF board.state[point].exposed
            THEN resp' = HitErr(h, From_anyhow("AlreadyHit")) /\ board' = board
            ELSE /\ board'.state[point].exposed
                 /\ resp'.value \notin {"AlreadyHit", "OutOfBounds"}
     /\ \A p \in DOMAIN board.state : board.state[p].exposed => board'.state[p].exposed
     /\ resp'.value = "AlreadyHit" => board' = board]_vars

\* A hit was refused with AlreadyHit on a board where a sink cascade ran.
C6_Witness ==
  /\ resp.value = "AlreadyHit"
  /\ \E s \in ShipIds : board.ships[s].length = 0 /\ NearbyExposed(s)

AllDefeated == \A c \in DOMAIN board.ship_counters : board.ship_counters[c].remaining = 0

\* C8: is_win returns true exactly when every counter has remaining 0 at its
\* return, false when one has not; with no counter, or only counters of
\* total 0, it returns true on the untouched board.
C8_IsWin ==
  [][resp'.call = "is_win" => (resp'.value = "true" <=> AllDefeated)]_vars

\* is_win returned true after the ships of the board were sunk.
C8_Witness ==
  /\ resp.call = "is_win"
  /\ resp.value = "true"
  /\ Len(board.ships) > 0

\* C9: a hit returns sank_ship only if Ship::hit of that very call took the
\* length to 0.
C9_SinkReportedByCause ==
  [][\A h \in Handlers :
       (resp'.handler = h /\ resp'.call = "hit" /\ resp'.sank_ship # NoShip) => extra[h]]_vars

\* C10: the sweep of a shard by cleanup leaves in it no entry whose expires
\* is at or before the now that cleanup read.
C10_CleanupRemovesExpired ==
  [][cleanup_retain =>
       \A id \in DOMAIN data :
         (ShardOf(id) = cshard /\ data[id].expires <= cnow) => id \notin DOMAIN data']_vars

\* get_session returning a session: the handler that held nothing now holds a
\* shared reference to the entry under id.
GetReturns(h, id) == sref[h] = NoRef /\ sref'[h] = Ref(id)

\* C11: a sweep removes a session only once its lifetime has elapsed (until
\* then get_session finds it), and a session whose lifetime had elapsed when a
\* sweep passed over it is not returned by a later get_session.
C11_LifetimeExpiry ==
  [][/\ cleanup_retain =>
          \A id \in DOMAIN data \ DOMAIN data' : data[id].expires <= now
     /\ \A h \in Handlers : \A id \in DOMAIN data :
          GetReturns(h, id) => data[id].board \notin swept]_vars

\* C12: get_session of an id the map holds hands out that very entry, whatever
\* its expires, get_session of an id the map lacks returns None, and neither
\* changes the map or any session in it.
C12_GetIgnoresExpiry ==
  [][\A h \in Handlers : \A id \in SessionIDs :
       get_session(h, id) =>
         /\ IF id \in DOMAIN data
            THEN GetReturns(h, id)
            ELSE sref'[h] = NoRef /\ resp'.call = "get_session" /\ resp'.value = "None"
         /\ data' = data]_vars

\* A handler holds what get_session gave it: a session past its expires that
\* no sweep has removed.
C12_Witness ==
  \E h \in Handlers :
    /\ pc[h] = "session"
    /\ sref[h].id \in DOMAIN data
    /\ ~sref[h].mut
    /\ data[sref[h].id].expires < now

\* C13: once remove_session has returned for an id, no later get_session of
\* that id returns a session, and the removal takes from the map nothing but
\* the session the caller held.
C13_RemoveIsFinal ==
  [][/\ \A h \in Handlers : \A id \in DOMAIN data :
          GetReturns(h, id) => id \notin removed
     /\ \A h \in Handlers :
          remove_session_remove(h) =>
            \A id \in DOMAIN data :
              data[id].board # staged[h].board =>
                id \in DOMAIN data' /\ data'[id] = data[id]]_vars

\* C14: the entry step of new_session inserts only under an id the map lacks at
\* that moment and leaves every entry already there as it was; finding the id
\* taken (another new_session got in between the vacancy check and the entry)
\* it fails and inserts nothing; so no session is ever held under two ids nor
\* replaced under its own.
C14_CreateNeverOverwrites ==
  /\ [](\A i, j \in DOMAIN data : data[i].board = data[j].board => i = j)
  /\ [][\A h \in Handlers :
         insert_new(h) =>
           /\ \A id \in DOMAIN data : id \in DOMAIN data' /\ data'[id] = data[id]
           /\ IF staged[h].id \in DOMAIN data
              THEN /\ data' = data
                   /\ sref'[h] = NoRef
                   /\ resp'.call = "new_session" /\ resp'.value = "Occupied"
              ELSE /\ DOMAIN data' = DOMAIN data \cup {staged[h].id}
                   /\ data'[staged[h].id].board = staged[h].board
                   /\ sref'[h] = RefMut(staged[h].id)]_vars

\* A new_session lost the race: the id its vacancy check chose was taken when
\* it came to insert, the session already there kept its place.
C14_Witness ==
  /\ resp.call = "new_session"
  /\ resp.value = "Occupied"
  /\ DOMAIN data # {}

\* C15: new_session computes expires once, as the time it reads plus the
\* store's session_lifetime; the entry is inserted with that value; and no
\* step (get_session, another new_session, a removal or sweep of other
\* entries, the clock) changes the expires of a session that stays in the map.
C15_ExpiresFixed ==
  [][/\ \A h \in Handlers :
          new_session(h) => staged'[h].expires = now + Lifetime
     /\ \A h \in Handlers :
          (insert_new(h) /\ staged[h].id \notin DOMAIN data) =>
            data'[staged[h].id].expires = staged[h].expires
     /\ \A id \in DOMAIN data \cap DOMAIN data' :
          data'[id].board = data[id].board => data'[id].expires = data[id].expires]_vars

\* A session that has been in the map while the clock moved on and a later
\* session was created, now looked up by a handler.
C15_Witness ==
  \E h \in Handlers : \E id \in DOMAIN data :
    /\ sref[h] = Ref(id)
    /\ data[id].expires = now
    /\ data[id].board < created
    /\ Cardinality(DOMAIN data) = 2

\* The handler can take a step: the lock it is after, if any, is free.
Ready(h) == ENABLED SweepHandler(h)

\* No process waits in a cycle: a handler that is waiting waits for a handler
\* that can go on, and the sweep, when the shard it is after is held, waits
\* for a handler that can go on (the sweep holds no lock while it waits).
NoCyclicWait ==
  /\ \A h \in Handlers :
       pc[h] # "idle" =>
         \/ Ready(h)
         \/ \E g \in Handlers \ {h} : pc[g] # "idle" /\ Ready(g)
  /\ cpc = "retain" =>
       \/ ENABLED cleanup_retain
       \/ \E g \in Handlers : sref[g] # NoRef /\ Ready(g)

RECURSIVE StepsFrom(_)
StepsFrom(i) ==
  IF i > Len(defs) THEN 1
  ELSE 2 + defs[i].count * TRIES + StepsFrom(i + 1)

StepsLeft ==
  CASE bpc \in {"done", "failed"} -> 0
    [] bpc = "class" -> StepsFrom(di)
    [] bpc = "instance" ->
         (defs[di].count - placed) * TRIES - tries + 1 + StepsFrom(di + 1)

\* random can take a step: an attempt (there is always a draw to make), or one
\* of the steps around it.
CanGoOn ==
  \/ /\ bpc = "instance"
     /\ placed < defs[di].count
     /\ tries < TRIES
     /\ Draws(bounds, defs[di].length) # {}
  \/ ENABLED (RandomNextClass \/ AddShipRandomExhausted \/ RandomClassDone \/ RandomFinish)

\* C17: add_ship_random makes at most TRIES attempts; the first attempt whose
\* add_ship_instance is Ok ends the call with one more ship, a failed attempt
\* leaves the board alone; the call fails exactly when TRIES attempts have
\* failed; random then stops for good, placing nothing more; and random always
\* comes to an end, with the board or with that failure: until then it can
\* take a step, and every step brings the end nearer.
C17_RandomTerminates ==
  /\ [](/\ tries <= TRIES
        /\ bpc = "failed" => tries = TRIES
        /\ StepsLeft >= 0
        /\ bpc \notin {"done", "failed"} => CanGoOn)
  /\ [][/\ AddShipRandomAttempt =>
            IF Len(board'.ships) = Len(board.ships) + 1
            THEN placed' = placed + 1 /\ tries' = 0
            ELSE board' = board /\ placed' = placed /\ tries' = tries + 1
        /\ (bpc = "instance" /\ tries = TRIES) => bpc' = "failed"
        /\ bpc' = "failed" => (tries = TRIES /\ board' = board)
        /\ bpc \notin {"done", "failed"}
        /\ StepsLeft' < StepsLeft]_vars

\* random has given up on the second ship of a class after placing the first.
C17_Witness ==
  /\ bpc = "failed"
  /\ tries = TRIES
  /\ Len(board.ships) = 1
  /\ defs[di].count = 2

\* The cells lie side by side in one row or one column.
StraightLine(cells) ==
  \/ cells = {}
  \/ \E p \in cells :
       \/ cells = {Point(p.x + i, p.y) : i \in 0..(Cardinality(cells) - 1)}
       \/ cells = {Point(p.x, p.y + i) : i \in 0..(Cardinality(cells) - 1)}

\* The ships that refer to the counter of class i.
ShipsOfClass(i) == {s \in ShipIds : board.ships[s].counter = i}

\* C18: the Board random returns Ok has one counter per definition, in the
\* order of the definitions, with the class name and total = remaining =
\* count; for each class exactly count ships that refer to its counter, each
\* of the class length and lying on exactly that many cells in one straight
\* row or column; and no cell exposed.
C18_RandomBoardShape ==
  bpc = "done" =>
    /\ Len(board.ship_counters) = Len(defs)
    /\ \A i \in 1..Len(defs) :
         /\ board.ship_counters[i] = [name |-> defs[i].name,
                                      total |-> defs[i].count,
                                      remaining |-> defs[i].count]
         /\ Cardinality(ShipsOfClass(i)) = defs[i].count
         /\ \A s \in ShipsOfClass(i) :
              /\ board.ships[s].length = defs[i].length
              /\ Cardinality(ShipCells(s)) = defs[i].length
              /\ StraightLine(ShipCells(s))
    /\ \A s \in ShipIds : board.ships[s].counter \in 1..Len(defs)
    /\ \A p \in DOMAIN board.state : ~board.state[p].exposed

\* random returned the board of a fleet of two classes: a ship on two cells
\* and a ship on one.
C18_Witness ==
  /\ bpc = "done"
  /\ Len(defs) = 2
  /\ \E s, t \in ShipIds :
       /\ board.ships[s].counter = 1 /\ Cardinality(ShipCells(s)) = 2
       /\ board.ships[t].counter = 2 /\ Cardinality(ShipCells(t)) = 1

\* The target cells of points that are Ship or NearShip, and the cells next to
\* a target, not targets themselves, that hold a ship.
Colliding(b, points) ==
  {p \in SeqRange(points) \cap DOMAIN b.state :
     b.state[p].content.tag \in {"Ship", "NearShip"}}
  \cup {q \in DOMAIN b.state \ SeqRange(points) :
          /\ b.state[q].content.tag = "Ship"
          /\ \E p \in SeqRange(points) : Adjacent(p, q)}

\* C19: whatever points add_ship_random hands it, add_ship_instance returns
\* InternalError for no points, OutOfBounds when some point is outside the
\* grid, else Collision with a colliding point when a target is Ship or
\* NearShip or a neighbour of a target holds a ship, and Ok otherwise.
C19_AddShipInstanceErrors ==
  (bpc = "instance" /\ placed < defs[di].count) =>
    \A draw \in Draws(bounds, defs[di].length) :
      LET points == PointsOf(draw, defs[di].length)
          r == add_ship_instance(board, Len(board.ship_counters), points)
      IN IF Len(points) = 0 THEN r.err = "InternalError"
         ELSE IF \E i \in 1..Len(points) : points[i] \notin DOMAIN board.state
         THEN r.err = "OutOfBounds"
         ELSE IF Colliding(board, points) # {}
         THEN r.err = "Collision" /\ r.point \in Colliding(board, points)
         ELSE r.err = "Ok"

\* The number of "-" in a string.
Separators(s) == Cardinality({i \in 1..Len(s) : s[i] = "-"})

\* C20: from_str of the text to_string wrote for a Point gives back that
\* Point, for every x and y of u8; from_str fails for a text with no "-", for
\* a text with more than one "-", and for a text one half of which has a
\* character that is no digit (a leading "+" apart): so for "3", "a-1" and
\* "1-1-1".
C20_PointRoundTrip ==
  ppc = "parsed" =>
    /\ shown # NoPoint => parsed = [err |-> "Ok", point |-> shown]
    /\ Separators(text) # 1 => parsed.err # "Ok"
    /\ (\E i \in 1..Len(text) : ~IsDigit(text[i]) /\ text[i] \notin {"-", "+"})
         => parsed.err # "Ok"
    /\ text \in {<<"3">>, <<"a", "-", "1">>, <<"1", "-", "1", "-", "1">>}
         => parsed.err # "Ok"
    /\ parsed.err = "Ok" =>
         parsed.point.x \in 0..U8Max /\ parsed.point.y \in 0..U8Max

\* The Point (255, 0) went out as "255-0" and came back.
C20_Witness ==
  /\ ppc = "parsed"
  /\ shown = Point(U8Max, 0)
  /\ text = <<"2", "5", "5", "-", "0">>
  /\ parsed.err = "Ok"

\* C21: a cell that is exposed, by a hit on it or by the cascade of a sunk
\* ship, is exposed in every later state: no step of a handler takes exposed
\* from true to false.
C21_ExposedMonotonic ==
  [][\A p \in DOMAIN board.state :
       board.state[p].exposed => board'.state[p].exposed]_vars

\* Hits and the cascade of a sunk ship have exposed the whole board.
C21_Witness ==
  /\ Len(board.ships) >= 1
  /\ \A p \in DOMAIN board.state : board.state[p].exposed
  /\ \A s \in ShipIds : board.ships[s].length = 0

\* A counter changes only in the register_sink of a ship of its class that
\* has just reached length 0; a ship's length changes only in a hit on one of
\* its own cells.
C22_Frame ==
  /\ \A c \in DOMAIN board.ship_counters :
       board'.ship_counters[c] # board.ship_counters[c] =>
         \E h \in Handlers :
           /\ pc[h] = "counter_write" /\ pc'[h] = "expose_nearby"
           /\ board.ships[ShipAt(pt[h])].counter = c
           /\ board.ships[ShipAt(pt[h])].length = 0
           /\ board'.ship_counters[c].remaining = board.ship_counters[c].remaining - 1
  /\ \A s \in ShipIds :
       board'.ships[s] # board.ships[s] =>
         \E h \in Handlers :
           /\ pc[h] = "ship_write" /\ ShipAt(pt[h]) = s
           /\ board'.ships[s].length = board.ships[s].length - 1

\* A class with a ship afloat still counts it, and is_win answers false as
\* long as some counter is above 0, true only when every ship is sunk.
C22_Afloat ==
  /\ \A s \in ShipIds :
       board.ships[s].length > 0 =>
         board.ship_counters[board.ships[s].counter].remaining >= 1
  /\ resp.call = "is_win" =>
       IF resp.value = "true"
       THEN \A s \in ShipIds : board.ships[s].length = 0
       ELSE \E c \in DOMAIN board.ship_counters :
              board.ship_counters[c].remaining >= 1

\* C22: the hit that sinks a ship changes the counter of that ship's class
\* only, by one, and no ship but the one hit; a hit that sinks nothing changes
\* no counter; so with a ship A and a ship B of another class, once A is sunk
\* its counter is 0 while B's is still 1 and is_win is false, and is_win is
\* true after B is sunk too.
C22_SinkTouchesOwnClass == []C22_Afloat /\ [][C22_Frame]_vars

\* A is sunk and counted, B is afloat and counted, and is_win has just
\* answered false.
C22_Witness ==
  /\ Len(board.ship_counters) = 2
  /\ board.ship_counters[1].remaining = 0
  /\ board.ship_counters[2].remaining = 1
  /\ \E s \in ShipIds : board.ships[s].counter = 1 /\ board.ships[s].length = 0
  /\ resp.call = "is_win"
  /\ resp.value = "false"


\* C23: a new_session that fails, by None from get_vacant_id ("memory full")
\* or by finding the id occupied at the entry, reports that to its caller
\* alone: the map and every guard on it stay as they were, the caller holds
\* nothing and is idle again, no other handler's call is disturbed.  "Memory
\* full" comes only from the last turn of the loop of get_vacant_id, each
\* turn before it having found its id occupied.
C23_CreateFailureIsLocal ==
  /\ [][\A h \in Handlers :
         (pc[h] \in {"get_vacant_id", "entry"} /\ pc'[h] = "idle") =>
           /\ resp'.handler = h
           /\ resp'.call = "new_session"
           /\ resp'.value \in {"MemoryFull", "Occupied"}
           /\ data' = data
           /\ removed' = removed
           /\ sref' = sref
           /\ sref[h] = NoRef
           /\ staged'[h] = NoStaged
           /\ \A g \in Handlers \ {h} : pc'[g] = pc[g] /\ staged'[g] = staged[g]
           /\ staged[h].id \in DOMAIN data
           /\ resp'.value = "MemoryFull" <=> pc[h] = "get_vacant_id"
           /\ resp'.value = "MemoryFull" => staged[h].tries = SessionID_MAX - 1]_vars
  /\ [][\A h \in Handlers :
         staged'[h].tries # staged[h].tries =>
           \/ staged'[h].tries = 0
           \/ /\ staged'[h].tries = staged[h].tries + 1
              /\ pc[h] = "get_vacant_id"
              /\ staged[h].id \in DOMAIN data]_vars
  /\ [][(resp'.value = "MemoryFull" /\ resp' # resp) =>
          pc[resp'.handler] = "get_vacant_id" /\ pc'[resp'.handler] = "idle"]_vars

\* "Memory full" was returned although an id is vacant: every turn drew the
\* occupied one.
C23_Witness ==
  /\ resp.call = "new_session"
  /\ resp.value = "MemoryFull"
  /\ pc[resp.handler] = "idle"
  /\ DOMAIN data # {}
  /\ DOMAIN data # SessionIDs


\* What BoardBuilder fixed: the grid, each cell's content, the ships with
\* their nearby_cells and counter, the counters with their name and total.
Structure(b) ==
  [cells |-> [p \in DOMAIN b.state |-> b.state[p].content],
   ships |-> [s \in 1..Len(b.ships) |-> [b.ships[s] EXCEPT !.length = 0]],
   ship_counters |-> [c \in 1..Len(b.ship_counters) |->
                        [b.ship_counters[c] EXCEPT !.remaining = 0]]]

\* C24: no step of hit or is_win changes the bounds, the set of cells, a
\* cell's content (tag and ship), the list of ships, the list of counters, a
\* ship's nearby_cells or counter, a counter's name or total: of a Board only
\* exposed of a cell, length of a ship and remaining of a counter change.
C24_StructureImmutable ==
  [][/\ bounds' = bounds
     /\ board' # board => Structure(board') = Structure(board)]_vars

\* The game was played to its end: everything that can change has changed.
C24_Witness ==
  /\ resp.call = "is_win"
  /\ resp.value = "true"
  /\ Len(board.ships) >= 2
  /\ \A s \in ShipIds : board.ships[s].length = 0
  /\ \A c \in 1..Len(board.ship_counters) : board.ship_counters[c].remaining = 0
  /\ \E p \in DOMAIN board.state : board.state[p].exposed


\* C25: the nearby_cells of every ship that add_ship_instance created holds
\* each neighbouring cell once, also a cell that is next to several cells of
\* the ship.
C25_NearbyDeduplicated ==
  \A s \in ShipIds :
    \A i, j \in 1..Len(board.ships[s].nearby_cells) :
      board.ships[s].nearby_cells[i] = board.ships[s].nearby_cells[j] => i = j


\* The straight runs of length cells inside the grid: a start cell and an
\* orientation whose last cell is still a cell of the board.
InGridPlacements(length) ==
  UNION {{[i \in 1..length |-> IF h THEN Point(p.x + (i - 1), p.y)
                                       ELSE Point(p.x, p.y + (i - 1))] :
            p \in {q \in DOMAIN board.state :
                     IF h
                     THEN Point(q.x + (length - 1), q.y) \in DOMAIN board.state
                     ELSE Point(q.x, q.y + (length - 1)) \in DOMAIN board.state}} :
         h \in BOOLEAN}

\* C26: on the square board, for every length from 1 to its side, each point
\* list add_ship_random can draw lies inside the grid in both orientations,
\* its u8 additions not wrapping, and each straight run of that length inside
\* the grid is the list of some draw: the start ranges over 0..=n-length
\* along the ship and 0..=n-1 across.
C26_CandidatesInGrid ==
  \A length \in 1..Size :
    /\ \A d \in Draws(bounds, length) :
         /\ d.start_x + (IF d.horizontal THEN length - 1 ELSE 0) <= U8Max
         /\ d.start_y + (IF d.horizontal THEN 0 ELSE length - 1) <= U8Max
         /\ \A i \in 1..length : PointsOf(d, length)[i] \in DOMAIN board.state
         /\ d.start_x \in 0..(Size - (IF d.horizontal THEN length ELSE 1))
         /\ d.start_y \in 0..(Size - (IF d.horizontal THEN 1 ELSE length))
    /\ \A points \in InGridPlacements(length) :
         \E d \in Draws(bounds, length) : PointsOf(d, length) = points

\* A ship of length 2 was placed ending in the far corner of the grid.
C26_Witness ==
  /\ bpc = "instance"
  /\ placed >= 1
  /\ defs[di].length = 2
  /\ board.state[Point(Size - 1, Size - 1)].content.tag = "Ship"


\* C27: a hit that succeeds on a cell without a ship (Water or NearShip)
\* returns from CellRef::hit at Ok(None): the step sets exposed of that one
\* cell and nothing else of the board (no length, no counter, no other cell)
\* and the diff it returns names no sunk ship.  Only a hit on a Ship cell
\* goes on to ship.write().
C27_MissTouchesOneCell ==
  /\ [][\A h \in Handlers :
         (pc[h] = "session" /\ resp'.handler = h /\ resp'.call = "hit"
            /\ resp'.value = "Ok") =>
           /\ resp'.sank_ship = NoShip
           /\ pc'[h] = "idle"
           /\ \E cell \in DOMAIN board.state :
                /\ board.state[cell].content.tag \in {"Water", "NearShip"}
                /\ ~board.state[cell].exposed
                /\ board' = [board EXCEPT !.state[cell].exposed = TRUE]]_vars
  /\ [][\A h \in Handlers :
         (pc[h] = "session" /\ pc'[h] = "ship_write") =>
           board.state[pt'[h]].content.tag = "Ship"]_vars

\* A hit on a NearShip cell has just returned: that cell alone is exposed,
\* every ship is whole.
C27_Witness ==
  /\ resp.call = "hit"
  /\ resp.value = "Ok"
  /\ resp.sank_ship = NoShip
  /\ Len(board.ships) >= 1
  /\ \A s \in ShipIds : board.ships[s].length >= 1
  /\ \A c \in 1..Len(board.ship_counters) :
       board.ship_counters[c].remaining = board.ship_counters[c].total
  /\ \E cell \in DOMAIN board.state :
       /\ board.state[cell].content.tag = "NearShip"
       /\ \A p \in DOMAIN board.state : board.state[p].exposed <=> p = cell


\* C28: both failures of a hit, OutOfBounds and AlreadyHit, reach the caller
\* as a WebError of kind Client with a 4xx status, never as an internal
\* error.
C28_HitErrorsAreClientErrors ==
  (resp.call = "hit" /\ resp.value \in {"OutOfBounds", "AlreadyHit"}) =>
    /\ resp.error.kind = "Client"
    /\ resp.error.status \in {"BAD_REQUEST", "NOT_FOUND"}


C30_FailedAddLeavesBuilder ==
  /\ [](bpc = "instance" =>
          \A d \in Draws(bounds, defs[di].length) :
            LET r == add_ship_instance(board, Len(board.ship_counters),
                                       PointsOf(d, defs[di].length))
            IN /\ r.err \in {"Ok", "OutOfBounds", "Collision", "InternalError"}
               /\ r.err # "Ok" => r.inner = board)
  /\ [][(bpc = "instance" /\ tries' = tries + 1) =>
          board' = board /\ placed' = placed]_vars

\* A turn of add_ship_random failed on a board that already has a ship.
C30_Witness ==
  /\ bpc = "instance"
  /\ tries >= 1
  /\ Len(board.ships) >= 1
  /\ placed < defs[di].count


\* No handler is between the start and the end of a Board::hit.
Quiescent ==
  \A h \in Handlers :
    pc[h] \notin {"ship_write", "counter_write", "expose_nearby", "has_sank_read"}

\* C31: with no hit in progress every ship's length is the number of its
\* cells not yet exposed, so a ship afloat has a cell that can still be hit;
\* Ship::hit is never entered on a ship of length 0; the cascade of
\* register_sink never exposes a cell that holds a ship.
C31_LengthIsUnexposedCells ==
  /\ [](Quiescent =>
          \A s \in ShipIds :
            /\ board.ships[s].length = Cardinality(Unexposed(s))
            /\ board.ships[s].length > 0 =>
                 \E p \in ShipCells(s) :
                   get_cell(board, p) = p /\ ~exposed(board.state[p]))
  /\ [](\A h \in Handlers :
          pc[h] = "ship_write" => board.ships[ShipAt(pt[h])].length >= 1)
  /\ [][\A p \in DOMAIN board.state :
          (contains_ship(board.state[p].content)
             /\ ~board.state[p].exposed /\ board'.state[p].exposed) =>
            \E h \in Handlers :
              pc[h] = "session" /\ pc'[h] = "ship_write" /\ pt'[h] = p]_vars

\* Between hits: the two-cell ship was hit once, the other ship is sunk and
\* its cascade done.
C31_Witness ==
  /\ Quiescent
  /\ \E s, t \in ShipIds :
       /\ Cardinality(ShipCells(s)) = 2
       /\ board.ships[s].length = 1
       /\ board.ships[t].length = 0
       /\ NearbyExposed(t)


\* The ships of the class of counter c that are not sunk.
AfloatOf(c) ==
  {s \in ShipIds : board.ships[s].counter = c /\ board.ships[s].length > 0}

\* The cells no hit and no cascade has exposed yet.
UnexposedCells == {p \in DOMAIN board.state : ~board.state[p].exposed}

\* C32: with no hit in progress each counter's remaining is the number of
\* ships of its class still afloat, so all counters are 0 exactly when every
\* ship is sunk; is_win returns true only then, and once all counters are 0
\* they stay 0 and every later is_win returns true.  A win comes after
\* finitely many successful hits: each takes at least one cell out of the
\* unexposed ones, none ever comes back, and while the game is not won a
\* ship cell is left to hit.
C32_WinReachedAndKept ==
  /\ [](Quiescent =>
          /\ \A c \in DOMAIN board.ship_counters :
               board.ship_counters[c].remaining = Cardinality(AfloatOf(c))
          /\ AllDefeated <=> \A s \in ShipIds : board.ships[s].length = 0
          /\ ~AllDefeated =>
               \E p \in UnexposedCells : contains_ship(board.state[p].content))
  /\ [][/\ AllDefeated => AllDefeated'
        /\ (AllDefeated /\ resp'.call = "is_win") => resp'.value = "true"
        /\ (resp'.call = "is_win" /\ resp'.value = "true") =>
             \A s \in ShipIds : board.ships[s].length = 0
        /\ UnexposedCells' \subseteq UnexposedCells
        /\ (resp'.call = "hit" /\ resp'.value = "Ok") =>
             \E h \in Handlers :
               /\ resp'.handler = h
               /\ pc[h] \in {"session", "has_sank_read"}
               /\ pc[h] = "session" => UnexposedCells' # UnexposedCells
               /\ pc[h] = "has_sank_read" => pt[h] \notin UnexposedCells]_vars

\* The two ships of one class are sunk, is_win has returned true, and water
\* that no hit reached is left.
C32_Witness ==
  /\ Quiescent
  /\ resp.call = "is_win"
  /\ resp.value = "true"
  /\ Len(board.ship_counters) = 1
  /\ board.ship_counters[1].total = 2
  /\ AfloatOf(1) = {}
  /\ \E p \in UnexposedCells : board.state[p].content = Water


\* C33: of two hits that meet on one unexposed cell, the one that gets the
\* cell's write guard exposes it and succeeds; the other makes its check only
\* after the first has left CellRef::hit, finds the cell exposed and fails
\* with AlreadyHit, changing nothing.  So no two calls in progress have won
\* the same cell, and the ship's length goes down by 1 once, in the call
\* that won it.
C33_OneHitWinsTheCell ==
  /\ [][\A h \in Handlers :
          (pc[h] = "session" /\ resp'.handler = h /\ resp'.value = "AlreadyHit") =>
            /\ board' = board
            /\ \A p \in DOMAIN board.state \ UnexposedCells :
                 Board_hit(h, p) =>
                   \A g \in Handlers \ {h} :
                     ~(pc[g] \in {"ship_write", "counter_write", "expose_nearby"}
                         /\ pt[g] = p)]_vars
  /\ [][\A h \in Handlers :
          (/\ pc[h] = "session"
           /\ \/ pc'[h] = "ship_write"
              \/ resp'.handler = h /\ resp'.call = "hit" /\ resp'.value = "Ok") =>
            \E p \in UnexposedCells :
              /\ board' = [board EXCEPT !.state[p].exposed = TRUE]
              /\ \A g \in Handlers \ {h} : pt[g] # p
              /\ contains_ship(board.state[p].content) <=> pc'[h] = "ship_write"
              /\ pc'[h] = "ship_write" => pt'[h] = p]_vars
  /\ [](\A h, g \in Handlers : (h # g /\ pt[h] # NoPoint) => pt[h] # pt[g])
  /\ [][\A s \in ShipIds :
          board'.ships[s].length # board.ships[s].length =>
            /\ board'.ships[s].length = board.ships[s].length - 1
            /\ \E h \in Handlers :
                 /\ pc[h] = "ship_write"
                 /\ pc'[h] # "ship_write"
                 /\ board.state[pt[h]].content = ShipOf(s)
                 /\ board.state[pt[h]].exposed]_vars

\* One call has won the only exposed cell, a cell of the two-cell ship, and
\* has not returned yet; the other call has failed on it with AlreadyHit.
C33_Witness ==
  \E h \in Handlers :
    /\ pc[h] = "has_sank_read"
    /\ resp.call = "hit"
    /\ resp.value = "AlreadyHit"
    /\ resp.handler # h
    /\ \A p \in DOMAIN board.state : board.state[p].exposed <=> p = pt[h]
    /\ Cardinality(ShipCells(ShipAt(pt[h]))) = 2
    /\ board.ships[ShipAt(pt[h])].length = 1


\* The cells of the grid among the 8 neighbours of the cells of ship s, its
\* own cells left out.
Neighbourhood(s) ==
  {q \in DOMAIN board.state : \E p \in ShipCells(s) : Adjacent(p, q)} \ ShipCells(s)

\* C34: on every board the build has reached, a cell without a ship is
\* NearShip exactly when it is one of the 8 neighbours of a cell of some
\* ship and Water otherwise, and the cells in nearby_cells of each ship are
\* exactly its in-grid neighbourhood without its own cells, the cells that
\* are also next to another ship included.
C34_NearShipIsNeighbourhood ==
  /\ \A q \in DOMAIN board.state :
       \/ /\ board.state[q].content.tag = "Ship"
          /\ board.state[q].content.ship \in ShipIds
       \/ /\ board.state[q].content.tag = "NearShip"
          /\ \E s \in ShipIds : q \in Neighbourhood(s)
       \/ /\ board.state[q].content = Water
          /\ \A s \in ShipIds : q \notin Neighbourhood(s)
  /\ \A s \in ShipIds :
       /\ ShipCells(s) # {}
       /\ SeqRange(board.ships[s].nearby_cells) = Neighbourhood(s)

\* random returned a board with two ships that share a neighbouring cell and
\* with water left.
C34_Witness ==
  /\ bpc = "done"
  /\ Len(board.ships) = 2
  /\ Neighbourhood(1) \cap Neighbourhood(2) # {}
  /\ \E q \in DOMAIN board.state : board.state[q].content = Water

====
